---- MODULE Spec2Model ----
\* RF69 transceiver driver (src/ERF69.h): the mode-switching state machine, the
\* event poll and the length-prefixed packet transfer, together with the
\* transceiver's registers, FIFO and clock as the driver sees them on the bus.
\*
\* The driver is single-threaded and synchronous. A public operation is one
\* action up to the point where it enters a poll loop; every iteration of a
\* poll loop is one action (register read, comparison, deadline test, return),
\* so that the hardware and the clock can move between two polls.
\*
\* ERF69.h defines the inline members; the out-of-line members it only declares
\* (set_mode, wait_mode, wait_event, rd_burst, wr_burst, tx_reg, tx_begin,
\* tx_end, set_key, set_network_id) are modelled from spec.md sections 4 and 6.
EXTENDS Integers, Sequences, FiniteSets, TLC

\* ---------------------------------------------------------------- constants

RF69_MODE_SWITCH_TOUT == 100
RF69_PKT_SEND_TOUT == 4000
RF69_KEY_LENGTH == 16
RF69_MAX_MSG_SZ == 64

rf_sleep == 0
rf_idle == 1
rf_fs == 2
rf_tx == 3
rf_rx == 4

rf_PayloadReady == 4
rf_PacketSent == 8

\* Register addresses (spec.md section 6).
REG_FIFO == 0
REG_OPMODE == 1
REG_IRQFLAGS == 40
\* The packet-configuration register whose bit 0 switches encryption on, and the
\* first of the RF69_KEY_LENGTH key registers.
REG_PKTCFG2 == 61
REG_AESKEY == 62
\* The filtering register the network identifier is written to.
REG_SYNCVALUE == 47

\* ------------------------------------------------------------------- bounds

\* The clock is sampled ClockDiv times per timeout: while a poll loop with
\* timeout t runs, the clock advances in steps of t / ClockDiv time-units.
ClockDiv == 2
\* Payload lengths 0..MaxSmallLen and RF69_MAX_MSG_SZ are exercised.
MaxSmallLen == 2
\* Receive buffer lengths 0..MaxBufLen and RF69_MAX_MSG_SZ are exercised.
MaxBufLen == 4
\* Packets held by the FIFO at one time.
MaxPkts == 2
\* Bus transactions recorded per call (repeated polls of one register count once).
MaxLog == 6
\* Calls of set_key whose outcome is recorded.
MaxKeyCalls == 3

\* --------------------------------------------------------------- value sets

RF69_mode_t == {rf_sleep, rf_idle, rf_fs, rf_tx, rf_rx}
RF69_event_t == {rf_PayloadReady, rf_PacketSent}
\* m_flags.last_mode is a 3-bit field.
ModeBits == 0..7
RegAddrs == 0..127

\* Values the event-flags register takes: payload-ready (bit 2) and
\* packet-sent (bit 3), each set or clear.
IrqVals == {a + b : a \in {0, rf_PayloadReady}, b \in {0, rf_PacketSent}}
\* Timeouts a caller passes to wait_event.
EventTouts == {0, RF69_PKT_SEND_TOUT}

\* No value: below every byte.
NoVal == 0 - 1
NoCall == [op |-> "none", m |-> 0, tout |-> 0, data |-> <<>>]

Min(a, b) == IF a < b THEN a ELSE b

RECURSIVE BitAnd(_, _)
BitAnd(a, b) ==
  IF a = 0 \/ b = 0 THEN 0
  ELSE (a % 2) * (b % 2) + 2 * BitAnd(a \div 2, b \div 2)

RECURSIVE BitOr(_, _)
BitOr(a, b) ==
  IF a = 0 THEN b
  ELSE IF b = 0 THEN a
  ELSE (IF a % 2 = 1 \/ b % 2 = 1 THEN 1 ELSE 0) + 2 * BitOr(a \div 2, b \div 2)

\* The packet buffer a caller hands to wr_packet: the length byte, then len
\* payload bytes.
PacketBuf(len, seed) == <<len>> \o [i \in 1..len |-> (seed * 100 + i) % 256]
PktLens == (0..MaxSmallLen) \cup {RF69_MAX_MSG_SZ}
BufLens == (0..MaxBufLen) \cup {RF69_MAX_MSG_SZ}
\* Two payload byte patterns: 1, 2, 3, ... (bytes that read as small lengths)
\* and 101, 102, 103, ...
Packets == {PacketBuf(len, seed) : len \in PktLens, seed \in {0, 1}}
\* The packets send_packet is called with.
TxPackets == {PacketBuf(len, 0) : len \in {MaxSmallLen, RF69_MAX_MSG_SZ}}

RECURSIVE Flatten(_)
Flatten(q) == IF q = <<>> THEN <<>> ELSE Head(q) \o Flatten(Tail(q))

\* ------------------------------------------------------------------- state

\* The driver object and the transceiver it drives, as one record.
VARIABLE st

vars == <<st>>

pc == st.pc                \* "idle", or the poll loop the driver is in: "wait_mode", "wait_event"
call == st.call            \* the public operation in progress, or the last one that returned
ret == st.ret              \* the value the last operation returned
wtarget == st.wtarget      \* the mode or event mask the current poll loop waits for
wtout == st.wtout          \* the timeout of the current poll loop
elapsed == st.elapsed      \* millis() - start of the current poll loop
last_mode == st.last_mode  \* m_flags.last_mode
regs == st.regs            \* the values last written to the transceiver's registers
opmode == st.opmode        \* the live value of the mode-control register
irq == st.irq              \* the live value of the event-flags register
fifo == st.fifo            \* the bytes held by the transceiver's FIFO
pktq == st.pktq            \* the packets the FIFO bytes were loaded as (history)
log == st.log              \* address bytes put on the bus by the current call (history)
polled == st.polled        \* the last value the current call read from the mode-control register
polls == st.polls          \* polls made by the current poll loop: 0, or 1 for one or more
mode_ret == st.mode_ret    \* the mode get_mode() or last_mode() returned last
buff == st.buff            \* the bytes rd_packet stored, from index 0 of the caller's buffer
rdlen == st.rdlen          \* the length byte the last length-prefixed burst read consumed
keyhist == st.keyhist      \* per set_key call: was the key null, is encryption on after it (history)
bus == st.bus              \* the serial bus:
cs == bus.cs               \*   the exclusive-access line is asserted
xfer == bus.xfer           \*   bytes transferred in the transaction opened last
busfault == bus.fault      \*   the bus was used out of order at some point (history)
pulsed == st.pulsed        \* the awaited flag was set and cleared again between two polls of the current call (history)

\* The state the driver's sequential code threads through, and its outcome.
World == st
Commit(s) == st' = s

\* A public operation is entered: the per-call history starts afresh.
Enter(s, c) ==
  [s EXCEPT !.call = c, !.ret = FALSE, !.log = <<>>, !.polled = NoVal,
            !.polls = 0, !.mode_ret = NoVal, !.elapsed = 0, !.buff = <<>>,
            !.rdlen = NoVal, !.wtarget = 0, !.wtout = 0, !.pulsed = FALSE]

Return(s, v) == [s EXCEPT !.pc = "idle", !.ret = v]

\* ------------------------------------------------------------ the hardware

\* Bits 2-4 of the mode-control register hold the mode.
HwModeField(v) == (v \div 4) % 8
HwWithMode(v, m) == v - 4 * HwModeField(v) + 4 * m

HwRead(s, a) ==
  IF a = REG_OPMODE THEN s.opmode
  ELSE IF a = REG_IRQFLAGS THEN s.irq
  ELSE IF a = REG_FIFO THEN (IF s.fifo = <<>> THEN 0 ELSE Head(s.fifo))
  ELSE s.regs[a]

\* A register write is latched; the live mode field follows it when (and if) the
\* transceiver completes the transition.
HwWrite(s, a, v) == [s EXCEPT !.regs[a] = v]

\* ----------------------------------------------------------------- the bus

\* The address byte of a transaction goes into the call's log; a poll repeating
\* the read just logged is not logged again.
LogBus(s, ab) ==
  [s EXCEPT !.log = IF Len(@) >= MaxLog \/ (ab < 128 /\ @ # <<>> /\ @[Len(@)] = ab)
                    THEN @
                    ELSE Append(@, ab)]

NoteRead(s, a, v) == IF a = REG_OPMODE THEN [s EXCEPT !.polled = v] ELSE s

\* A transaction opens: the exclusive-access line is asserted. Opening one
\* inside another is out of order.
tx_begin(s) ==
  [s EXCEPT !.bus = [cs |-> TRUE, xfer |-> 0, fault |-> @.fault \/ @.cs]]

\* n bytes cross the bus; with the line released that is out of order.
Transfer(s, n) ==
  [s EXCEPT !.bus = [cs |-> @.cs, xfer |-> @.xfer + n, fault |-> @.fault \/ ~@.cs]]

\* The transaction closes: the line is released. Closing what is not open, or
\* a transaction that carried no address byte, is out of order.
tx_end(s) ==
  [s EXCEPT !.bus = [cs |-> FALSE, xfer |-> @.xfer,
                     fault |-> @.fault \/ ~@.cs \/ @.xfer = 0]]

\* The two bytes of a register transaction: the high byte of w is the address
\* byte (bit 7 set for a write), the low byte the value written. Yields the
\* state after them and the byte read.
tx_word(s, w) ==
  LET ab == w \div 256
      a == ab % 128
  IN IF ab >= 128
     THEN [s |-> LogBus(HwWrite(Transfer(s, 2), a, w % 256), ab), v |-> 0]
     ELSE [s |-> LogBus(NoteRead(Transfer(s, 2), a, HwRead(s, a)), ab),
           v |-> HwRead(s, a)]

\* One 16-bit register transaction.
tx_reg(s, w) ==
  LET r == tx_word(tx_begin(s), w) IN [s |-> tx_end(r.s), v |-> r.v]

\* rd_reg sending its word without opening a transaction.
rd_reg_unbracketed(s, addr) == tx_word(s, (addr * 256) % 65536)

\* rd_reg with the write bit set in the address byte.
rd_reg_write_bit(s, addr) == tx_reg(s, (BitOr(128, addr) * 256) % 65536)

\* rd_reg without the shift: the address goes out as the value byte.
rd_reg_no_shift(s, addr) == tx_reg(s, addr % 65536)

rd_reg(s, addr) == tx_reg(s, (addr * 256) % 65536)

\* wr_reg leaving the write bit out of the address byte.
wr_reg_no_write_bit(s, addr, val) == tx_reg(s, (addr * 256 + val) % 65536).s

wr_reg(s, addr, val) == tx_reg(s, (BitOr(128, addr) * 256 + val) % 65536).s

\* get_events reading the mode-control register instead of the flags.
get_events_reg1(s) == rd_reg(s, REG_OPMODE)

get_events(s) == rd_reg(s, REG_IRQFLAGS)

\* get_mode with the shift off by one bit.
get_mode_shift3(s) ==
  LET r == rd_reg(s, REG_OPMODE) IN [s |-> r.s, v |-> (r.v \div 8) % 8]

\* get_mode answering from the cached request, without a read.
get_mode_cached(s) == [s |-> s, v |-> s.last_mode]

get_mode(s) ==
  LET r == rd_reg(s, REG_OPMODE) IN [s |-> r.s, v |-> (r.v \div 4) % 8]

\* The FIFO is read and written in bursts; a read past its end yields 0.
FifoTake(f, k) == [i \in 1..k |-> IF i <= Len(f) THEN f[i] ELSE 0]
FifoDrop(f, k) == SubSeq(f, k + 1, Len(f))

\* Burst write: the address byte with bit 7 set, then len bytes of data. The
\* FIFO takes them all; elsewhere they go to consecutive registers.
wr_burst(s, addr, data, len) ==
  LET bytes == SubSeq(data, 1, Min(len, Len(data)))
      s1 == tx_end(Transfer(tx_begin(LogBus(s, BitOr(128, addr))), 1 + Len(bytes)))
  IN IF addr = REG_FIFO
     THEN [s1 EXCEPT !.fifo = @ \o bytes,
                     !.pktq = IF bytes = <<>> THEN @ ELSE Append(@, bytes)]
     ELSE [s1 EXCEPT !.regs = [a \in RegAddrs |->
                                 IF a >= addr /\ a < addr + Len(bytes)
                                 THEN bytes[a - addr + 1] ELSE @[a]]]

\* Burst read. With a length prefix the first byte read is the declared length
\* N; Min(N, buff_len) bytes go to the buffer and the other N - buff_len bytes
\* are read and dropped inside the same transaction.
rd_burst(s, addr, buff_len, with_len_prefix) ==
  LET n == IF with_len_prefix THEN FifoTake(s.fifo, 1)[1] ELSE NoVal
      rest == IF with_len_prefix THEN FifoDrop(s.fifo, 1) ELSE s.fifo
      keep == IF with_len_prefix THEN Min(n, buff_len) ELSE buff_len
      used == IF with_len_prefix THEN n ELSE buff_len
      sent == 1 + (IF with_len_prefix THEN 1 ELSE 0) + used
      s1 == tx_end(Transfer(tx_begin(LogBus(s, addr)), sent))
  IN [s1 EXCEPT !.buff = FifoTake(rest, keep),
                !.fifo = FifoDrop(rest, used),
                !.rdlen = n,
                !.pktq = IF with_len_prefix /\ @ # <<>> THEN Tail(@) ELSE @]

\* ------------------------------------------------------- the mode controller

\* Writes the mode field to the mode-control register and records the request.
set_mode(s, m) ==
  [wr_reg(s, REG_OPMODE, (m * 4) % 256) EXCEPT !.last_mode = m % 8]

\* Enters the poll loop on the live mode field; tout is a uint8_t.
wait_mode(s, m, tout) ==
  [s EXCEPT !.pc = "wait_mode", !.wtarget = m, !.wtout = tout % 256,
            !.elapsed = 0, !.polls = 0]

\* switch_mode without the request: it only waits.
switch_mode_norequest(s, m) == wait_mode(s, m, RF69_MODE_SWITCH_TOUT)

switch_mode(s, m) == wait_mode(set_mode(s, m), m, RF69_MODE_SWITCH_TOUT)

sleep(s) == switch_mode(s, rf_sleep)
start_tx(s) == switch_mode(s, rf_tx)
start_rx(s) == switch_mode(s, rf_rx)
cancel(s) == switch_mode(s, rf_idle)

last_mode_get(s) == s.last_mode

\* --------------------------------------------------------- the event monitor

\* Enters the poll loop on the event flags; tout is a uint16_t.
wait_event(s, e, tout) ==
  [s EXCEPT !.pc = "wait_event", !.wtarget = e, !.wtout = tout % 65536,
            !.elapsed = 0, !.polls = 0]

\* packet_sent testing the payload-ready bit.
packet_sent_payload_bit(s) ==
  LET r == get_events(s) IN [s |-> r.s, v |-> BitAnd(r.v, rf_PayloadReady) # 0]

packet_sent(s) ==
  LET r == get_events(s) IN [s |-> r.s, v |-> BitAnd(r.v, rf_PacketSent) # 0]

packet_rxed(s) ==
  LET r == get_events(s) IN [s |-> r.s, v |-> BitAnd(r.v, rf_PayloadReady) # 0]

\* -------------------------------------------------------- the packet channel

\* wr_packet counting the message without its length prefix.
wr_packet_no_prefix(s, data) == wr_burst(s, REG_FIFO, data, data[1] % 256)

\* wr_packet requesting transmit mode itself once the FIFO is loaded.
wr_packet_requests_tx(s, data) ==
  set_mode(wr_burst(s, REG_FIFO, data, (1 + data[1]) % 256), rf_tx)

\* The length argument of wr_burst is a uint8_t.
wr_packet(s, data) == wr_burst(s, REG_FIFO, data, (1 + data[1]) % 256)

\* rd_packet reading up to the maximum message size, whatever the buffer holds.
rd_packet_max_size(s, buff_len) == rd_burst(s, REG_FIFO, RF69_MAX_MSG_SZ, TRUE)

\* rd_packet leaving with_len_prefix at its default, false.
rd_packet_raw(s, buff_len) == rd_burst(s, REG_FIFO, buff_len, FALSE)

rd_packet(s, buff_len) == rd_burst(s, REG_FIFO, buff_len, TRUE)

\* send_packet requesting transmit before the FIFO is loaded.
send_packet_tx_first(s, data) == wr_packet(start_tx(s), data)

\* send_packet up to the poll loop of start_tx().
send_packet(s, data) == start_tx(wr_packet(s, data))

\* send_packet requesting transmit again, until the switch succeeds.
send_packet_retry(s, tx_ok) ==
  IF tx_ok THEN wait_event(s, rf_PacketSent, RF69_PKT_SEND_TOUT)
  ELSE start_tx(s)

\* send_packet waiting for packet-sent with the mode-switch timeout.
send_packet_short_wait(s, tx_ok) ==
  IF tx_ok THEN wait_event(s, rf_PacketSent, RF69_MODE_SWITCH_TOUT)
  ELSE Return(s, FALSE)

\* send_packet requesting idle itself when the switch to transmit failed.
send_packet_cancels(s, tx_ok) ==
  IF tx_ok THEN wait_event(s, rf_PacketSent, RF69_PKT_SEND_TOUT)
  ELSE Return(set_mode(s, rf_idle), FALSE)

\* send_packet waiting for packet-sent whatever start_tx() returned.
send_packet_always_waits(s, tx_ok) ==
  wait_event(s, rf_PacketSent, RF69_PKT_SEND_TOUT)

\* send_packet after start_tx() returned: && evaluates wait_event only then.
send_packet_tx_done(s, tx_ok) ==
  IF tx_ok THEN wait_event(s, rf_PacketSent, RF69_PKT_SEND_TOUT)
  ELSE Return(s, FALSE)

\* ---------------------------------------------------------- the poll loops

\* wait_mode returned ok to its caller: switch_mode returns it, send_packet goes on.
wait_mode_done(s, ok) ==
  IF s.call.op = "send_packet" THEN send_packet_tx_done(s, ok) ELSE Return(s, ok)

\* One iteration of wait_mode.
wait_mode_poll(s) ==
  LET r == get_mode(s)
      s1 == [r.s EXCEPT !.polls = 1]
  IN IF r.v = s.wtarget THEN wait_mode_done(s1, TRUE)
     ELSE IF s.elapsed >= s.wtout THEN wait_mode_done(s1, FALSE)
     ELSE s1

\* One iteration of wait_event.
wait_event_poll(s) ==
  LET r == get_events(s)
      s1 == [r.s EXCEPT !.polls = 1]
  IN IF BitAnd(r.v, s.wtarget) # 0 THEN Return(s1, TRUE)
     ELSE IF s.elapsed >= s.wtout THEN Return(s1, FALSE)
     ELSE s1

\* ------------------------------------------------------------------ actions

Call(op, m, tout, data) == [op |-> op, m |-> m, tout |-> tout, data |-> data]

Idle == pc = "idle"

SleepCall == Idle /\ Commit(sleep(Enter(World, Call("sleep", rf_sleep, 0, <<>>))))
StartTxCall == Idle /\ Commit(start_tx(Enter(World, Call("start_tx", rf_tx, 0, <<>>))))
StartRxCall == Idle /\ Commit(start_rx(Enter(World, Call("start_rx", rf_rx, 0, <<>>))))
CancelCall == Idle /\ Commit(cancel(Enter(World, Call("cancel", rf_idle, 0, <<>>))))

\* switch_mode is protected: a derived class reaches every mode with it.
SwitchModeCall ==
  /\ Idle
  /\ \E m \in RF69_mode_t :
       Commit(switch_mode(Enter(World, Call("switch_mode", m, 0, <<>>)), m))

GetModeCall ==
  /\ Idle
  /\ LET r == get_mode(Enter(World, Call("get_mode", 0, 0, <<>>)))
     IN Commit([r.s EXCEPT !.mode_ret = r.v])

LastModeCall ==
  /\ Idle
  /\ LET s == Enter(World, Call("last_mode", 0, 0, <<>>))
     IN Commit([s EXCEPT !.mode_ret = last_mode_get(s)])

WaitModePoll == pc = "wait_mode" /\ Commit(wait_mode_poll(World))

WaitEventCall ==
  /\ Idle
  /\ \E e \in RF69_event_t, t \in EventTouts :
       Commit(wait_event(Enter(World, Call("wait_event", e, t, <<>>)), e, t))

WaitEventPoll == pc = "wait_event" /\ Commit(wait_event_poll(World))

PacketSentCall ==
  /\ Idle
  /\ LET r == packet_sent(Enter(World, Call("packet_sent", 0, 0, <<>>)))
     IN Commit(Return(r.s, r.v))

PacketRxedCall ==
  /\ Idle
  /\ LET r == packet_rxed(Enter(World, Call("packet_rxed", 0, 0, <<>>)))
     IN Commit(Return(r.s, r.v))

WrPacketCall ==
  /\ Idle
  /\ Len(pktq) < MaxPkts
  /\ \E d \in Packets :
       Commit(wr_packet(Enter(World, Call("wr_packet", 0, 0, d)), d))

\* A packet is read once one has arrived.
RdPacketCall ==
  /\ Idle
  /\ pktq # <<>>
  /\ \E b \in BufLens :
       Commit(rd_packet(Enter(World, Call("rd_packet", b, 0, <<>>)), b))

SendPacketCall ==
  /\ Idle
  /\ Len(pktq) < MaxPkts
  /\ \E d \in TxPackets :
       Commit(send_packet(Enter(World, Call("send_packet", rf_tx, 0, d)), d))

ClockStep(tout) == IF tout \div ClockDiv = 0 THEN 1 ELSE tout \div ClockDiv

\* The monotonic clock advances while the driver polls.
Tick ==
  /\ pc \in {"wait_mode", "wait_event"}
  /\ elapsed < wtout
  /\ st' = [st EXCEPT !.elapsed = @ + ClockStep(wtout)]

\* The transceiver's mode field changes: the requested transition completes
\* (at once, late) or the transceiver changes mode on its own.
HwMode ==
  /\ \E m \in RF69_mode_t :
       /\ m # HwModeField(opmode)
       /\ st' = [st EXCEPT !.opmode = HwWithMode(@, m)]

\* The transceiver's event flags change.
HwFlags ==
  /\ \E v \in IrqVals : v # irq /\ st' = [st EXCEPT !.irq = v]

\* The transceiver receives a packet into the FIFO.
HwReceive ==
  /\ Len(pktq) < MaxPkts
  /\ \E p \in Packets :
       st' = [st EXCEPT !.fifo = @ \o p, !.pktq = Append(@, p)]

\* In transmit mode the transceiver sends what the FIFO holds.
HwTxDone ==
  /\ HwModeField(opmode) = rf_tx
  /\ fifo # <<>>
  /\ st' = [st EXCEPT !.fifo = <<>>, !.pktq = <<>>,
                       !.irq = BitOr(@, rf_PacketSent)]

\* ----------------------------------------------------------- specifications

\* After construction: m_flags is not initialised by the constructor, the
\* transceiver is in whatever mode it powered up in.
Init ==
  \E lm \in ModeBits, m \in RF69_mode_t :
    st = [pc |-> "idle", call |-> NoCall, ret |-> FALSE,
          wtarget |-> 0, wtout |-> 0, elapsed |-> 0,
          last_mode |-> lm,
          regs |-> [a \in RegAddrs |-> 0],
          opmode |-> 4 * m,
          irq |-> 0,
          fifo |-> <<>>, pktq |-> <<>>, log |-> <<>>,
          polled |-> NoVal, polls |-> 0, mode_ret |-> NoVal,
          buff |-> <<>>, rdlen |-> NoVal, keyhist |-> <<>>,
          bus |-> [cs |-> FALSE, xfer |-> 0, fault |-> FALSE],
          pulsed |-> FALSE]

Next ==
  \/ SleepCall \/ StartTxCall \/ StartRxCall \/ CancelCall \/ SwitchModeCall
  \/ GetModeCall \/ LastModeCall \/ WaitModePoll
  \/ WaitEventCall \/ WaitEventPoll \/ PacketSentCall \/ PacketRxedCall
  \/ WrPacketCall \/ RdPacketCall \/ SendPacketCall
  \/ Tick \/ HwMode \/ HwFlags \/ HwReceive \/ HwTxDone

\* The mode, event and packet operations against every behaviour of the
\* transceiver. The specifications below take the operations a component at a
\* time; the register, key and network-identifier operations have their own.
Spec == Init /\ [][Next]_vars

\* The mode controller alone.
NextMode ==
  \/ SleepCall \/ StartTxCall \/ StartRxCall \/ CancelCall \/ SwitchModeCall
  \/ GetModeCall \/ LastModeCall \/ WaitModePoll \/ Tick \/ HwMode

SpecMode == Init /\ [][NextMode]_vars

\* The event monitor alone.
NextEvent ==
  \/ WaitEventCall \/ WaitEventPoll \/ PacketSentCall \/ PacketRxedCall
  \/ Tick \/ HwFlags

SpecEvent == Init /\ [][NextEvent]_vars

\* Packet framing through the FIFO.
NextPkt == WrPacketCall \/ RdPacketCall \/ HwReceive

\* The packet operations read neither the cached mode nor the live mode: the
\* transceiver is idle, as wr_packet asks for.
InitPkt == Init /\ last_mode = rf_idle /\ opmode = 4 * rf_idle

SpecPkt == InitPkt /\ [][NextPkt]_vars

\* Writing packets and reading them back, the transceiver receiving nothing.
NextRoundTrip == WrPacketCall \/ RdPacketCall

SpecRoundTrip == InitPkt /\ [][NextRoundTrip]_vars

\* Send and confirm.
NextSend ==
  \/ SendPacketCall \/ WaitModePoll \/ WaitEventPoll
  \/ Tick \/ HwMode \/ HwFlags \/ HwTxDone

SpecSend == Init /\ [][NextSend]_vars

\* Every public operation that waits (each of the first four is a call of
\* switch_mode), with the driver's poll loops running and the monotonic clock
\* advancing.
NextWait ==
  \/ SleepCall \/ StartTxCall \/ StartRxCall \/ CancelCall
  \/ WaitEventCall \/ SendPacketCall \/ WaitModePoll \/ WaitEventPoll
  \/ Tick \/ HwMode \/ HwFlags \/ HwTxDone

\* The waits read neither the cached mode as the constructor left it nor the
\* mode the transceiver powered up in, which HwMode changes at will.
InitWait == Init /\ last_mode = rf_idle /\ opmode = 4 * rf_idle

FairSpec ==
  /\ InitWait /\ [][NextWait]_vars
  /\ WF_vars(Tick) /\ WF_vars(WaitModePoll) /\ WF_vars(WaitEventPoll)

\* ------------------------------------------- wr_packet on any length byte

\* wr_packet takes a bare uint8_t*: nothing bounds the length byte the caller
\* puts in data[0]. Beside the lengths of PktLens, one above the maximum
\* message size and the largest byte; the caller's array holds whole packets.
AnyLens == PktLens \cup {RF69_MAX_MSG_SZ + 1, 255}
AnyPackets == {PacketBuf(len, seed) : len \in AnyLens, seed \in {0, 1}}

WrPacketAnyCall ==
  /\ Idle
  /\ Len(pktq) < MaxPkts
  /\ \E d \in AnyPackets :
       Commit(wr_packet(Enter(World, Call("wr_packet", 0, 0, d)), d))

NextWrAny == WrPacketAnyCall \/ RdPacketCall

SpecWrAny == InitPkt /\ [][NextWrAny]_vars

\* ------------------------------------------------ loading, then transmitting

\* The transceiver completes the transition to the mode latched in the
\* mode-control register.
HwModeReached ==
  /\ HwModeField(regs[REG_OPMODE]) # HwModeField(opmode)
  /\ st' = [st EXCEPT !.opmode = HwWithMode(@, HwModeField(st.regs[REG_OPMODE]))]

\* The caller loads packets and requests idle or transmit; the transceiver
\* follows the requests, late or never, and transmits while in transmit mode.
NextLoad ==
  \/ WrPacketCall \/ StartTxCall \/ CancelCall \/ WaitModePoll
  \/ Tick \/ HwModeReached \/ HwTxDone

\* The transceiver asleep, as the (unwritten) mode-control register says.
InitLoad == Init /\ last_mode = rf_sleep /\ opmode = 4 * rf_sleep

SpecLoad == InitLoad /\ [][NextLoad]_vars

\* ------------------------------------------------ key and network identifier

\* The zero key pointer.
NullKey == <<>>
\* Two 16-byte keys: 1, 2, 3, ... and 101, 102, 103, ...
Keys == {[i \in 1..RF69_KEY_LENGTH |-> seed * 100 + i] : seed \in {0, 1}}
ZeroKey == [i \in 1..RF69_KEY_LENGTH |-> 0]
\* Network identifiers (uint32_t) a caller passes.
NetIds == {1, 256 ^ 3 + 2 * 256 ^ 2 + 3 * 256 + 4}

\* Bit 0 of the packet-configuration register: encryption on.
KeyActive(s) == s.regs[REG_PKTCFG2] % 2 = 1
KeyRegs(s) == [i \in 1..RF69_KEY_LENGTH |-> s.regs[REG_AESKEY + i - 1]]

\* set_key writing the key registers and leaving encryption as it was.
set_key_keep_state(s, key) ==
  wr_burst(s, REG_AESKEY, IF key = NullKey THEN ZeroKey ELSE key, RF69_KEY_LENGTH)

\* The key is burst-written verbatim, a zero pointer as an all-zero key, and
\* encryption is switched on for a key, off for a zero pointer.
set_key(s, key) ==
  LET s1 == wr_burst(s, REG_AESKEY, IF key = NullKey THEN ZeroKey ELSE key,
                     RF69_KEY_LENGTH)
  IN wr_reg(s1, REG_PKTCFG2, IF key = NullKey THEN 0 ELSE 1)

\* The identifier goes to the filtering register in one burst, low byte first.
set_network_id(s, id) ==
  wr_burst(s, REG_SYNCVALUE, [i \in 1..4 |-> (id \div (256 ^ (i - 1))) % 256], 4)

SetKeyCall ==
  /\ Idle
  /\ Len(keyhist) < MaxKeyCalls
  /\ \E k \in {NullKey} \cup Keys :
       LET s == set_key(Enter(World, Call("set_key", 0, 0, k)), k)
       IN Commit([s EXCEPT !.keyhist =
                    Append(@, [null |-> k = NullKey, active |-> KeyActive(s)])])

SetNetworkIdCall ==
  /\ Idle
  /\ \E id \in NetIds :
       Commit(set_network_id(Enter(World, Call("set_network_id", id, 0, <<>>)), id))

NextKey == SetKeyCall \/ SetNetworkIdCall

SpecKey == Init /\ [][NextKey]_vars

\* ------------------------------------------------------- register access

\* Values a caller writes to a register.
RegVals == {0, 255}

\* rd_reg and wr_reg are protected: a derived class calls them on any address.
RdRegCall ==
  /\ Idle
  /\ \E a \in RegAddrs :
       LET r == rd_reg(Enter(World, Call("rd_reg", a, 0, <<>>)), a)
       IN Commit([r.s EXCEPT !.mode_ret = r.v])

\* One register is written on a register file that holds no value yet.
WrRegCall ==
  /\ Idle
  /\ regs = [a \in RegAddrs |-> 0]
  /\ \E a \in RegAddrs, v \in RegVals :
       Commit(wr_reg(Enter(World, Call("wr_reg", a, v, <<>>)), a, v))

NextReg == RdRegCall \/ WrRegCall

SpecReg == InitPkt /\ [][NextReg]_vars

\* Every kind of bus transaction: the burst write, register writes and polls of
\* send_packet, and the burst read of rd_packet, against a transceiver that
\* answers, answers late, or never.
NextBus ==
  \/ SendPacketCall \/ RdPacketCall \/ WaitModePoll \/ WaitEventPoll
  \/ Tick \/ HwMode \/ HwFlags \/ HwTxDone

SpecBus == InitWait /\ [][NextBus]_vars

\* The awaited flag sets and clears itself again, all between two polls: the
\* flags register is afterwards as it was.
HwPulse ==
  /\ pc = "wait_event"
  /\ BitAnd(irq, wtarget) = 0
  /\ ~pulsed
  /\ st' = [st EXCEPT !.pulsed = TRUE]

\* The event monitor against flags that also pulse between polls.
NextPulse == NextEvent \/ HwPulse

SpecPulse == InitWait /\ [][NextPulse]_vars

\* Send and confirm, against a transceiver that enters the requested mode late
\* or never and leaves it only on request.
NextSendLate ==
  \/ SendPacketCall \/ WaitModePoll \/ WaitEventPoll
  \/ Tick \/ HwModeReached \/ HwFlags \/ HwTxDone

SpecSendLate == Init /\ [][NextSendLate]_vars

\* Sends among the caller's other mode requests and queries.
NextSendMode ==
  \/ SendPacketCall \/ StartRxCall \/ CancelCall \/ LastModeCall
  \/ WaitModePoll \/ WaitEventPoll
  \/ Tick \/ HwMode \/ HwFlags \/ HwTxDone

SpecSendMode == InitWait /\ [][NextSendMode]_vars

\* ------------------------------------------------------------------ claims

SwitchOps == {"sleep", "start_tx", "start_rx", "cancel", "switch_mode"}
\* switch_mode(call.m) has returned.
SwitchReturned == pc = "idle" /\ call.op \in SwitchOps

\* C1: when switch_mode(m) returns true, the mode field (bits 2-4 of register 1)
\* read at the confirming poll equals m, and get_mode() called with the register
\* as that poll read it returns m.
C1_SwitchTrueModeReached ==
  (SwitchReturned /\ ret) =>
    /\ HwModeField(polled) = call.m
    /\ (opmode = polled => get_mode(World).v = call.m)

\* switch_mode(rf_rx) returned true after the transceiver reached receive late.
C1_Witness ==
  /\ SwitchReturned /\ ret /\ call.m = rf_rx
  /\ elapsed > 0 /\ opmode = polled /\ HwModeField(opmode) = rf_rx

\* C2: when switch_mode(m) returns false, last_mode() is m, whatever mode the
\* transceiver is in.
C2_SwitchFalseKeepsRequest ==
  (SwitchReturned /\ ~ret) => last_mode_get(World) = call.m

\* switch_mode(rf_tx) timed out with the transceiver in another mode and with
\* another mode cached before the call.
C2_Witness ==
  /\ SwitchReturned /\ ~ret /\ call.m = rf_tx
  /\ elapsed >= RF69_MODE_SWITCH_TOUT
  /\ HwModeField(opmode) = rf_sleep /\ last_mode = rf_tx

\* Address bytes on the bus.
WrFifo == 128 + REG_FIFO
WrOpMode == 128 + REG_OPMODE
Count(q, x) == Cardinality({i \in 1..Len(q) : q[i] = x})

\* The bus transactions of send_packet in order: FIFO burst write, write of the
\* mode-control register, polls of the mode-control register, polls of the flags.
SendLog == <<WrFifo, WrOpMode, REG_OPMODE, REG_IRQFLAGS>>
SendLogUpTo(n) == SubSeq(SendLog, 1, n)

C3_Step ==
  (call'.op = "send_packet") =>
    /\ pc' = "wait_mode" => log' \in {SendLogUpTo(2), SendLogUpTo(3)}
    /\ pc' = "wait_event" => log' \in {SendLogUpTo(3), SendLogUpTo(4)}
    /\ pc' = "idle" => log' \in {SendLogUpTo(3), SendLogUpTo(4)}
    /\ (pc # "idle" /\ pc' = "idle") =>
         (ret' <=> /\ pc = "wait_event"
                   /\ HwModeField(polled') = rf_tx
                   /\ BitAnd(irq, rf_PacketSent) # 0
                   /\ log' = SendLog)

\* C3: send_packet loads the FIFO, then requests and awaits transmit mode, then
\* polls for packet-sent, in that order, and returns true exactly when the poll
\* of the mode field read transmit and the poll of the flags read packet-sent.
C3_SendOrderAndResult == [][C3_Step]_vars

\* send_packet returned true after all three steps.
C3_Witness ==
  /\ pc = "idle" /\ call.op = "send_packet" /\ ret
  /\ log = SendLog /\ HwModeField(polled) = rf_tx

C4_Step ==
  (call'.op = "send_packet") =>
    /\ (pc = "wait_event" /\ BitAnd(irq, rf_PacketSent) = 0) =>
         \/ pc' = "wait_event"
         \/ pc' = "idle" /\ ~ret' /\ elapsed >= RF69_PKT_SEND_TOUT
    /\ (pc = "wait_mode" /\ pc' = "idle") => ~ret'
    /\ Count(log', WrFifo) = 1 /\ Count(log', WrOpMode) = 1
    /\ regs'[REG_OPMODE] = 4 * rf_tx
    /\ pc' = "wait_event" => wtout' = RF69_PKT_SEND_TOUT

\* C4: send_packet returns true only from a poll that reads packet-sent (bit 3 of
\* the flags) set; while it is not set, the packet-sent wait goes on until 4000
\* time-units have elapsed and then returns false; the call makes one FIFO burst
\* write and one write of transmit to the mode-control register, and no more.
C4_SendTimesOutNoRetry == [][C4_Step]_vars

\* send_packet returned false when the packet-sent wait ran out.
C4_Witness ==
  /\ pc = "idle" /\ call.op = "send_packet" /\ ~ret
  /\ log = SendLog /\ elapsed >= RF69_PKT_SEND_TOUT
  /\ BitAnd(irq, rf_PacketSent) = 0

C5_Step ==
  (pc = "wait_event" /\ call.op = "wait_event") =>
    /\ (polls = 0 /\ polls' = 1 /\ BitAnd(irq, call.m) # 0) =>
         pc' = "idle" /\ ret' /\ elapsed' = elapsed
    /\ (pc' = "idle" /\ ~ret') => elapsed >= call.tout

\* C5: wait_event(flag, timeout) returns true at its first poll, the clock as it
\* was, when the flag is set at that poll; it returns false only when at least
\* timeout time-units have elapsed since the call.
C5_WaitEventFirstPollAndDeadline == [][C5_Step]_vars

\* wait_event returned true with no time elapsed although its timeout is not 0.
C5_Witness ==
  /\ pc = "idle" /\ call.op = "wait_event" /\ ret
  /\ elapsed = 0 /\ call.tout = RF69_PKT_SEND_TOUT /\ call.m = rf_PayloadReady

\* A step that is a call of rd_packet: it consumes at least the length byte.
RdPacketStep == call'.op = "rd_packet" /\ Len(fifo') < Len(fifo)

C6_Step ==
  /\ (RdPacketStep /\ call'.m >= Head(pktq)[1]) =>
       /\ <<rdlen'>> \o buff' = Head(pktq)
       /\ pktq' = Tail(pktq)
  /\ (RdPacketStep /\ call.op = "wr_packet" /\ Len(pktq) = 1
        /\ call'.m >= call.data[1]) =>
       /\ <<rdlen'>> \o buff' = call.data
       /\ fifo' = <<>>

\* C6: rd_packet into a buffer at least as long as the payload yields the length
\* byte and the payload bytes, in order, of the packet wr_packet loaded (the
\* oldest one the FIFO holds), for every length 0..64 exercised.
C6_WriteReadRoundTrip == [][C6_Step]_vars

\* A 64-byte payload was written and read back whole into a 64-byte buffer.
C6_Witness ==
  /\ call.op = "rd_packet" /\ call.m = RF69_MAX_MSG_SZ
  /\ rdlen = RF69_MAX_MSG_SZ
  /\ buff = Tail(PacketBuf(RF69_MAX_MSG_SZ, 1))
  /\ fifo = <<>>

\* C7: rd_packet(buff, B) never stores more than B bytes, and stores exactly B
\* bytes, at indices 0..B-1, when the received payload is longer than B.
C7_ReadStaysInBuffer ==
  (call.op = "rd_packet") =>
    /\ Len(buff) <= call.m
    /\ (rdlen > call.m => Len(buff) = call.m)

\* A 64-byte payload was read into a 4-byte buffer.
C7_Witness ==
  /\ call.op = "rd_packet" /\ call.m = 4
  /\ rdlen = RF69_MAX_MSG_SZ /\ Len(buff) = 4

C8_Step ==
  /\ fifo' = Flatten(pktq')
  /\ RdPacketStep =>
       /\ rdlen' = Head(pktq)[1]
       /\ fifo' = Flatten(Tail(pktq))
       /\ log' = <<REG_FIFO>>

\* C8: every rd_packet, truncated or not, takes its length from the length byte
\* of the oldest packet and consumes that whole packet in one bus transaction,
\* so the FIFO always starts at a packet's length byte.
C8_ReadConsumesWholePacket == [][C8_Step]_vars

\* A 64-byte payload was read into a shorter buffer and the FIFO now starts at
\* the next packet's length byte.
C8_Witness ==
  /\ call.op = "rd_packet" /\ rdlen = RF69_MAX_MSG_SZ /\ call.m < rdlen
  /\ pktq = <<PacketBuf(2, 0)>> /\ fifo = PacketBuf(2, 0)

C9_Step ==
  (pc = "wait_mode") =>
    /\ last_mode' = last_mode
    /\ regs' = regs
    /\ fifo' = fifo
    /\ log' \in {log, Append(log, REG_OPMODE)}
    /\ Count(log', WrOpMode) = 1
    /\ (pc' = "idle" /\ ~ret') =>
         /\ log' = <<WrOpMode, REG_OPMODE>>
         /\ regs'[REG_OPMODE] = 4 * call.m
         /\ last_mode' = call.m

\* C9: while wait_mode polls, and when it times out, the driver only reads
\* register 1: it writes no register (the mode-control register keeps the one
\* write of set_mode) and last_mode stays as set_mode left it.
C9_WaitModeOnlyReads == [][C9_Step]_vars

\* sleep() timed out: one write of the mode-control register, then reads of it.
C9_Witness ==
  /\ pc = "idle" /\ call.op = "sleep" /\ ~ret
  /\ log = <<WrOpMode, REG_OPMODE>>
  /\ regs[REG_OPMODE] = 4 * rf_sleep /\ last_mode = rf_sleep
  /\ HwModeField(opmode) = rf_rx

\* C10: with the clock advancing, every poll loop ends, so switch_mode, sleep,
\* start_tx, start_rx, cancel, wait_event and send_packet always return,
\* whatever the transceiver does.
C10_EveryWaitReturns == (pc # "idle") ~> (pc = "idle")

\* wait_event(rf_PacketSent, 4000) returned false at its deadline, the flag
\* clear and payload-ready set.
C10_Witness ==
  /\ pc = "idle" /\ call.op = "wait_event" /\ ~ret
  /\ call.m = rf_PacketSent /\ call.tout = RF69_PKT_SEND_TOUT
  /\ elapsed >= RF69_PKT_SEND_TOUT /\ irq = rf_PayloadReady

C11_Step ==
  (call'.op = "wr_packet") =>
    /\ call'.data[1] <= RF69_MAX_MSG_SZ
    /\ Len(fifo') - Len(fifo) = 1 + call'.data[1]
    /\ Len(fifo') - Len(fifo) <= RF69_MAX_MSG_SZ + 1
    /\ log' = <<WrFifo>>

\* C11: every packet wr_packet moves has a length byte of at most 64 and takes at
\* most 65 bytes: wr_packet transfers exactly 1 + data[0] bytes to FIFO address
\* 0, whatever byte the caller put in data[0].
C11_WrPacketAnyLength == [][C11_Step]_vars

\* A step that is a call of wr_packet: the FIFO grows.
WrPacketStep == call'.op = "wr_packet" /\ Len(fifo') > Len(fifo)

\* wr_packet(call.data) was the last call and its packet is still the newest in
\* the FIFO, transmit neither requested nor entered.
C12_Loaded ==
  /\ pc = "idle" /\ call.op = "wr_packet"
  /\ last_mode # rf_tx /\ HwModeField(opmode) # rf_tx
  /\ pktq # <<>> /\ pktq[Len(pktq)] = call.data
  /\ fifo = Flatten(pktq)

C12_Step ==
  /\ WrPacketStep =>
       /\ log' = <<WrFifo>>
       /\ regs' = regs /\ last_mode' = last_mode
       /\ opmode' = opmode /\ irq' = irq
       /\ fifo' = fifo \o call'.data
       /\ pc' = "idle"
  /\ (WrPacketStep /\ last_mode # rf_tx /\ HwModeField(opmode) # rf_tx
        /\ fifo = Flatten(pktq)) => C12_Loaded'
  /\ (C12_Loaded /\ call' = call) => C12_Loaded'

\* C12: wr_packet makes one burst write to the FIFO and nothing else: no write
\* to the mode-control register, last_mode as it was; called with transmit
\* neither requested nor entered, its packet stays in the FIFO until the caller
\* makes a later call (start_tx).
C12_WrPacketOnlyLoads == [][C12_Step]_vars

\* A packet was loaded in idle mode, start_tx() then returned true, and the
\* packet has been sent.
C12_Witness ==
  /\ pc = "idle" /\ call.op = "start_tx" /\ ret
  /\ regs[REG_OPMODE] = 4 * rf_tx /\ last_mode = rf_tx
  /\ fifo = <<>> /\ BitAnd(irq, rf_PacketSent) # 0

\* Changes of the encryption state over the recorded set_key calls, from
\* encryption off.
RECURSIVE Toggles(_, _)
Toggles(was, h) ==
  IF h = <<>> THEN 0
  ELSE (IF Head(h).active # was THEN 1 ELSE 0) + Toggles(Head(h).active, Tail(h))

KeyNulls == [i \in 1..Len(keyhist) |-> keyhist[i].null]

C14_Step ==
  /\ (call'.op = "rd_reg") =>
       /\ log' = <<call'.m>>
       /\ log'[1] < 128 /\ log'[1] % 128 = call'.m
       /\ regs' = regs /\ fifo' = fifo /\ opmode' = opmode
       /\ mode_ret' = HwRead(World, call'.m)
  /\ (call'.op = "wr_reg") =>
       /\ log' = <<128 + call'.m>>
       /\ log'[1] >= 128 /\ log'[1] % 128 = call'.m
       /\ regs' = [regs EXCEPT ![call'.m] = call'.tout]

\* C14: for every address 0..127 and every value, the address byte rd_reg puts
\* on the bus has bit 7 clear and the one wr_reg puts has bit 7 set, the low 7
\* bits being the address; a read changes no register, a write changes the
\* addressed register only.
C14_AddressByte == [][C14_Step]_vars

\* Register 127 was written with 255 and read back.
C14_Witness ==
  /\ call.op = "rd_reg" /\ call.m = 127 /\ log = <<127>>
  /\ regs[127] = 255 /\ mode_ret = 255

\* C15: every bus transaction is bracketed: the exclusive-access line is
\* asserted, the address byte and the data bytes cross the bus, the line is
\* released. No transaction opens inside another, no byte crosses the bus with
\* the line released, and the line is released between two polls and whenever an
\* operation has returned, on a timeout too.
C15_BusBracketed ==
  /\ ~busfault
  /\ ~cs
  /\ (call.op # "none") => xfer >= 2
  /\ (pc = "idle" /\ call.op = "rd_packet") => xfer = 2 + rdlen

\* send_packet timed out waiting for packet-sent: its last transaction, a poll of
\* the flags, carried two bytes and the line is released.
C15_Witness ==
  /\ pc = "idle" /\ call.op = "send_packet" /\ ~ret
  /\ log = SendLog /\ elapsed >= RF69_PKT_SEND_TOUT
  /\ ~cs /\ xfer = 2 /\ ~busfault

C16_Step ==
  /\ (call.op = "wait_event" /\ pc = "wait_event" /\ pc' = "idle") =>
       /\ ret' <=> BitAnd(irq, call.m) # 0
       /\ ~ret' => elapsed >= call.tout
       /\ log' = <<REG_IRQFLAGS>>
  /\ (pc = "idle" /\ irq' = irq /\ call'.op = "packet_sent") =>
       /\ pc' = "idle" /\ log' = <<REG_IRQFLAGS>> /\ xfer' = 2
       /\ ret' <=> (irq \div 8) % 2 = 1
  /\ (pc = "idle" /\ irq' = irq /\ call'.op = "packet_rxed") =>
       /\ pc' = "idle" /\ log' = <<REG_IRQFLAGS>> /\ xfer' = 2
       /\ ret' <=> (irq \div 4) % 2 = 1

\* C16: wait_event returns true exactly when the poll it returns from reads the
\* awaited bit of register 0x28 set, so a flag that is set and cleared again
\* between two polls is never seen and the call returns false at the deadline;
\* packet_sent() and packet_rxed() make one read of register 0x28 and return its
\* bit 3 and bit 2 at once.
C16_NoLatch == [][C16_Step]_vars

\* wait_event(rf_PacketSent, 4000) returned false at its deadline although
\* packet-sent had been set, and cleared again, between two of its polls.
C16_Witness ==
  /\ pc = "idle" /\ call.op = "wait_event" /\ ~ret
  /\ call.m = rf_PacketSent /\ call.tout = RF69_PKT_SEND_TOUT
  /\ pulsed /\ polls = 1 /\ elapsed >= RF69_PKT_SEND_TOUT

C17_Step ==
  /\ (pc = "idle" /\ opmode' = opmode /\ call'.op = "get_mode") =>
       /\ log' = <<REG_OPMODE>> /\ xfer' = 2
       /\ mode_ret' = HwModeField(opmode)
       /\ \A lm \in ModeBits :
            mode_ret' = get_mode([World EXCEPT !.last_mode = lm]).v
       /\ last_mode' = last_mode /\ regs' = regs
  /\ (pc = "idle" /\ opmode' = opmode /\ call'.op = "last_mode") =>
       /\ log' = <<>> /\ xfer' = xfer /\ polled' = NoVal
       /\ mode_ret' = last_mode
       /\ \A m \in RF69_mode_t :
            mode_ret' = last_mode_get([World EXCEPT !.opmode = 4 * m])
       /\ last_mode' = last_mode /\ regs' = regs

\* C17: get_mode() makes one read of register 1 and returns its bits 2-4,
\* whatever the cached mode is, and leaves the cache alone; last_mode() returns
\* the cached mode, whatever the transceiver's mode is, without a bus
\* transaction.
C17_ModeQueriesIndependent == [][C17_Step]_vars

\* Transmit was requested and is cached, and get_mode() returned idle: the two
\* differ.
C17_Witness ==
  /\ pc = "idle" /\ call.op = "get_mode"
  /\ mode_ret = rf_idle /\ HwModeField(opmode) = rf_idle
  /\ last_mode = rf_tx /\ regs[REG_OPMODE] = 4 * rf_tx
  /\ last_mode_get(World) # mode_ret

\* The operations that request a mode: each calls set_mode(call.m) on entry.
ModeRequestOps == SwitchOps \cup {"send_packet"}

\* The cached mode changes only in the step that enters a mode request, to the
\* mode requested, together with the write of the mode-control register.
C18_FrameStep ==
  (last_mode' # last_mode) =>
    /\ pc = "idle" /\ call'.op \in ModeRequestOps
    /\ last_mode' = call'.m
    /\ regs'[REG_OPMODE] = 4 * call'.m

C18_Step ==
  /\ C18_FrameStep
  /\ last_mode \in RF69_mode_t
  /\ last_mode' \in RF69_mode_t

SendSwitchTimedOut ==
  /\ call.op = "send_packet" /\ pc = "wait_mode" /\ pc' # "wait_mode"
  /\ HwModeField(opmode) # rf_tx

C19_Step ==
  SendSwitchTimedOut =>
    /\ pc' = "idle" /\ ~ret'
    /\ log' = SendLogUpTo(3)
    /\ Count(log', REG_IRQFLAGS) = 0
    /\ wtout = RF69_MODE_SWITCH_TOUT
    /\ elapsed' >= RF69_MODE_SWITCH_TOUT
    /\ elapsed' < RF69_MODE_SWITCH_TOUT + ClockStep(RF69_MODE_SWITCH_TOUT)
    /\ elapsed' < RF69_PKT_SEND_TOUT
    /\ pktq' # <<>> /\ pktq'[Len(pktq')] = call.data
    /\ fifo' = Flatten(pktq')

\* C19: when the switch to transmit inside send_packet times out, send_packet
\* returns false at that poll, the first one at or after the mode-switch timeout
\* of 100 and long before 4000, without one read of the flags register, and the
\* packet it loaded is still in the FIFO.
C19_SendFailsFast == [][C19_Step]_vars

\* send_packet returned false from the wait for transmit mode, the 64-byte
\* packet still in the FIFO.
C19_Witness ==
  /\ pc = "idle" /\ call.op = "send_packet" /\ ~ret
  /\ log = SendLogUpTo(3) /\ HwModeField(opmode) # rf_tx
  /\ elapsed >= RF69_MODE_SWITCH_TOUT /\ elapsed < RF69_PKT_SEND_TOUT
  /\ fifo = PacketBuf(RF69_MAX_MSG_SZ, 0)

C20_Step ==
  /\ (call'.op = "send_packet") =>
       /\ last_mode' = rf_tx
       /\ regs'[REG_OPMODE] = 4 * rf_tx
       /\ Count(log', WrOpMode) = 1
  /\ (last_mode = rf_tx /\ last_mode' # rf_tx) =>
       /\ pc = "idle" /\ call'.op \in SwitchOps
       /\ last_mode' = call'.m
  /\ (pc = "idle" /\ call.op = "send_packet" /\ call'.op = "last_mode") =>
       mode_ret' = rf_tx

\* C20: from the moment send_packet requests transmit, through its return, true
\* or false, and until the caller's next mode request, last_mode() is transmit:
\* the call writes the mode-control register once, with transmit, and the cached
\* mode leaves transmit only in a step that enters a mode request of the caller.
C20_SendLeavesTransmitRequested == [][C20_Step]_vars

\* send_packet returned true and the transceiver has since gone idle by itself:
\* transmit is still the mode requested and cached.
C20_Witness ==
  /\ pc = "idle" /\ call.op = "send_packet" /\ ret
  /\ HwModeField(opmode) = rf_idle
  /\ last_mode_get(World) = rf_tx /\ regs[REG_OPMODE] = 4 * rf_tx

====
